---- MODULE Spec2Model ----
(***************************************************************************)
(* Payment-gated job lifecycle of the Jedi payment middleware              *)
(* (src/masumi/main.py).  The three module-level dictionaries jobs,        *)
(* payment_instances and project_payments are the program state; every     *)
(* coroutine of the program is cut at its await points, so one action is   *)
(* the code that runs between two awaits.  The payment network (the masumi *)
(* Payment object) and the Express server are the environment: they decide *)
(* when the settlement callback fires and how each network call returns.   *)
(***************************************************************************)
EXTENDS Integers, FiniteSets, Sequences, TLC

VARIABLES
    jobs,               \* jobs = {}               (main.py:38)
    payment_instances,  \* payment_instances = {}  (main.py:39), keys only
    project_payments,   \* project_payments = {}   (main.py:40)
    nextJob,            \* number of job ids handed out by uuid.uuid4()
    creating,           \* create_payment_job coroutines suspended at an await
    monitoring,         \* per job: state of the Payment object's monitor
    stopCalls,          \* per job: calls of stop_status_monitoring()
    callbacks,          \* process_payment_and_execute coroutines, by slot
    nCallbacks,         \* number of settlement callbacks invoked so far
    polls,              \* per job: get_status coroutines awaiting the poll
    freeOps,            \* per project id: setup_* coroutines awaiting Express
    dispatched,         \* per job: the (action, payload) sent to Express
    dispatchCount,      \* per job: call_express_api calls made for the job
    everCompleted,      \* jobs whose status has been set to "completed"
    adapter             \* how the payment adapter and uuid4 behave in this
                        \* run

vars == <<jobs, payment_instances, project_payments, nextJob, creating,
          monitoring, stopCalls, callbacks, nCallbacks, polls, freeOps,
          dispatched, dispatchCount, everCompleted, adapter>>

-----------------------------------------------------------------------------
(* Bounds of the model *)

MaxJobs == 1

MaxCallbacks == 2

MaxInFlight == 2

JobIds == 1..MaxJobs

\* a job id no job was ever created under
UnknownJob == 0

Slots == 1..MaxCallbacks

-----------------------------------------------------------------------------
(* Values *)

None == [none |-> TRUE]

\* repoUrl as its "/"-separated segments (names carry no ".git" suffix)
Repos == {<<"github.com", "owner", "repo">>}

\* url.split("/")[-1]
LastSegment(url) == IF Len(url) = 0 THEN "" ELSE url[Len(url)]

\* values of int(uuid.uuid4().time_low)
Nonces == {1}

\* project_id = repoUrl.split("/")[-1].replace(".git", "") + "-" + nonce
GenProjectId(repo, nonce) == <<LastSegment(repo), nonce>>

ProjectIds == {GenProjectId(r, n) : r \in Repos, n \in Nonces}

\* project ids a client may name, one of them never generated
ProjectKeys == ProjectIds \cup {<<"other", 0>>}

\* response.json() of a dispatched call: the created project for
\* create_project, an opaque answer for the other actions
Results(action) ==
    IF action = "create_project" THEN [projectId : ProjectKeys]
    ELSE {[output |-> action]}

\* str(e) of the HTTPExceptions call_express_api raises: a timeout, a
\* non-success answer
ExpressErrors == {"504: Express server timeout",
                  "500: Express server error"}

PaymentNetworkError == "PaymentNetworkError"

\* str(KeyError(job_id))
KeyError == "'job_id'"

StopError == "stop_status_monitoring failed"

\* status.get("data", {}).get("status") of a successful poll
PollStatuses == {"FundsLocked"}

\* one fee for every action
Amount_Flat(action) == 1000000

\* amount= of the three paid endpoints, in lovelace
Amount(action) ==
    CASE action = "create_project" -> 5000000
      [] action = "interact"       -> 1000000
      [] action = "analyze"        -> 2000000

-----------------------------------------------------------------------------
(* Request payloads built by the three paid endpoints *)

CreateProjectPayload(repo, nonce) ==
    [endpoint |-> <<"/api/projects/create">>, method |-> "POST",
     data |-> [repoUrl |-> repo, projectId |-> GenProjectId(repo, nonce)]]

InteractPayload(projectId) ==
    [endpoint |-> <<"/api/projects/", projectId, "/interact">>,
     method |-> "POST",
     data |-> [prompt |-> "prompt"]]

AnalyzePayload(repo, projectKey) ==
    [endpoint |-> <<"/api/github/analyze">>, method |-> "POST",
     data |-> [repoUrl |-> repo, projectKey |-> projectKey]]

-----------------------------------------------------------------------------
(* Initial state: the three dictionaries are empty, nothing is in flight *)

Idle == [pc |-> "idle"]

InitCommon ==
    /\ jobs = << >>
    /\ payment_instances = {}
    /\ project_payments = {}
    /\ nextJob = 0
    /\ creating = {}
    /\ monitoring = [j \in JobIds |-> "none"]
    /\ stopCalls = [j \in JobIds |-> 0]
    /\ callbacks = [i \in Slots |-> Idle]
    /\ nCallbacks = 0
    /\ polls = [j \in JobIds |-> 0]
    /\ freeOps = [p \in ProjectKeys |-> 0]
    /\ dispatched = [j \in JobIds |-> {}]
    /\ dispatchCount = [j \in JobIds |-> 0]
    /\ everCompleted = {}

\* a monitor that may repeat the settlement callback of a job, at any time
\* after the callback was registered
Init ==
    InitCommon
    /\ adapter = [duplicates |-> TRUE, stopFaults |-> FALSE,
                uuidRepeats |-> FALSE]

\* a payment adapter that keeps its contract: one settlement callback per
\* job, none after stop_status_monitoring, which never raises
InitContract ==
    InitCommon
    /\ adapter = [duplicates |-> FALSE, stopFaults |-> FALSE,
                uuidRepeats |-> FALSE]

\* an adapter that repeats callbacks and whose stop_status_monitoring may
\* raise
InitFaulty ==
    InitCommon
    /\ adapter = [duplicates |-> TRUE, stopFaults |-> TRUE,
                uuidRepeats |-> FALSE]

\* an adapter that keeps its contract, and a uuid4 that may return the id of
\* a stored job
InitCollide ==
    InitCommon
    /\ adapter = [duplicates |-> FALSE, stopFaults |-> FALSE,
                uuidRepeats |-> TRUE]

RECURSIVE Sum(_, _)
Sum(f, S) ==
    IF S = {} THEN 0
    ELSE LET x == CHOOSE y \in S : TRUE IN f[x] + Sum(f, S \ {x})

\* coroutines suspended at an await
InFlight ==
    Cardinality(creating)
    + Cardinality({i \in Slots : callbacks[i].pc # "idle"})
    + Sum(polls, JobIds)
    + Sum(freeOps, ProjectKeys)

-----------------------------------------------------------------------------
(* create_payment_job, called by create_project, interact and analyze *)

PaymentId(j) == <<"blockchainIdentifier", j>>

\* the record stored at main.py:208-216 (no "error" key yet)
NewJob(payment_id, action, payload) ==
    [status |-> "awaiting_payment",
     payment_status |-> "pending",
     payment_id |-> payment_id,
     action |-> action,
     payload |-> payload,
     result |-> None,
     identifier_from_purchaser |-> "purchaser"]

\* values of str(uuid.uuid4()): an id never handed out, or, when the generator
\* repeats itself, the id of a stored job
GeneratedIds ==
    ({nextJob + 1} \cap JobIds)
    \cup (IF adapter.uuidRepeats THEN DOMAIN jobs ELSE {})

\* job_id = str(uuid.uuid4()), Payment(...), then the await of
\* payment.create_payment_request()
BeginCreate(action, payload) ==
    \E j \in GeneratedIds :
        /\ InFlight < MaxInFlight
        /\ nextJob' = IF j > nextJob THEN j ELSE nextJob
        /\ creating' = creating \cup
             {[job |-> j, action |-> action, payload |-> payload,
               amount |-> Amount(action), pc |-> "create_payment_request"]}
        /\ UNCHANGED <<jobs, payment_instances, project_payments,
                       monitoring, stopCalls, callbacks, nCallbacks, polls,
                       freeOps, dispatched, dispatchCount, everCompleted,
                       adapter>>

CreateProject ==
    \E r \in Repos, n \in Nonces :
        BeginCreate("create_project", CreateProjectPayload(r, n))

Interact ==
    \E p \in ProjectIds : BeginCreate("interact", InteractPayload(p))

Analyze ==
    \E r \in Repos, p \in ProjectIds :
        BeginCreate("analyze", AnalyzePayload(r, p))

\* jobs[job_id] = {...}
StoreJob(js, j, payment_id, action, payload) ==
    [k \in DOMAIN js \cup {j} |->
        IF k = j THEN NewJob(payment_id, action, payload) ELSE js[k]]

\* the call of call_express_api made for job j
Dispatch(j, action, payload) ==
    /\ dispatched' = [dispatched EXCEPT
                         ![j] = @ \cup {[action |-> action,
                                         payload |-> payload]}]
    /\ dispatchCount' = [dispatchCount EXCEPT ![j] = @ + 1]

\* a creation that runs the action at once instead of waiting for settlement
RegisterJob_Eager(c) ==
    /\ jobs' = StoreJob(jobs, c.job, PaymentId(c.job), c.action, c.payload)
    /\ payment_instances' = payment_instances \cup {c.job}
    /\ Dispatch(c.job, c.action, c.payload)

\* the job is stored and the instrument associated; payment_callback is only
\* defined, nothing is sent to Express
RegisterJob(c) ==
    /\ jobs' = StoreJob(jobs, c.job, PaymentId(c.job), c.action, c.payload)
    /\ payment_instances' = payment_instances \cup {c.job}
    /\ UNCHANGED <<dispatched, dispatchCount>>

\* a failed creation that still stores the job record
AbortCreate_PartialJob(c) ==
    /\ jobs' = StoreJob(jobs, c.job, PaymentId(c.job), c.action, c.payload)
    /\ UNCHANGED <<payment_instances, dispatched, dispatchCount>>

\* create_payment_request() raises at main.py:202: the exception leaves
\* create_payment_job before any of the dictionaries is written
AbortCreate(c) ==
    UNCHANGED <<jobs, payment_instances, dispatched, dispatchCount>>

\* what the endpoint answers when create_payment_job raised e
CreateFailedReply(e) ==
    [code |-> 500, detail |-> <<"Failed to create project: ", e>>]

\* create_payment_request() returns: the job is registered and
\* start_status_monitoring(payment_callback) is awaited; or it raises and the
\* endpoint answers 500
PaymentRequestReturns ==
    \E c \in creating :
        /\ c.pc = "create_payment_request"
        /\ \/ /\ RegisterJob(c)
              /\ creating' = (creating \ {c}) \cup
                    {[c EXCEPT !.pc = "start_status_monitoring"]}
           \/ /\ creating' = creating \ {c}
              /\ AbortCreate(c)
        /\ UNCHANGED <<project_payments, nextJob, monitoring, stopCalls,
                       callbacks, nCallbacks, polls, freeOps, everCompleted,
                       adapter>>

\* start_status_monitoring() returns and the payment details are returned, or
\* it raises and the endpoint answers 500
StartMonitoringReturns ==
    \E c \in creating :
        /\ c.pc = "start_status_monitoring"
        /\ creating' = creating \ {c}
        /\ \/ monitoring' = [monitoring EXCEPT ![c.job] = "active"]
           \/ UNCHANGED monitoring
        /\ UNCHANGED <<jobs, payment_instances, project_payments, nextJob,
                       stopCalls, callbacks, nCallbacks, polls, freeOps,
                       dispatched, dispatchCount, everCompleted, adapter>>

-----------------------------------------------------------------------------
(* process_payment_and_execute, the settlement callback *)

\* the part of the state the callback writes
Store == [jobs |-> jobs, payment_instances |-> payment_instances,
          project_payments |-> project_payments, monitoring |-> monitoring,
          stopCalls |-> stopCalls, everCompleted |-> everCompleted,
          raised |-> FALSE]

\* d[k] = v on a Python dict: the key is added when it is missing
SetKey(d, k, v) == [f \in DOMAIN d \cup {k} |-> IF f = k THEN v ELSE d[f]]

\* outcomes of stop_status_monitoring(): TRUE returns, FALSE raises
StopOutcomes == IF adapter.stopFaults THEN {TRUE, FALSE} ELSE {TRUE}

\* a release that stops the monitor and keeps the association
ReleaseMonitoring_KeepsInstrument(S, j, stopOk) ==
    IF j \notin S.payment_instances THEN S
    ELSE [S EXCEPT !.stopCalls[j] = @ + 1, !.monitoring[j] = "stopped"]

\* if job_id in payment_instances: stop_status_monitoring(); del ...
ReleaseMonitoring(S, j, stopOk) ==
    IF j \notin S.payment_instances THEN S
    ELSE IF stopOk
         THEN [S EXCEPT !.stopCalls[j] = @ + 1,
                        !.monitoring[j] = "stopped",
                        !.payment_instances = @ \ {j}]
         ELSE [S EXCEPT !.stopCalls[j] = @ + 1, !.raised = TRUE]

\* an except block that records the error and leaves the status alone
FailedJob_StatusKept(job, e) == SetKey(job, "error", e)

\* jobs[job_id]["status"] = "failed"; jobs[job_id]["error"] = str(e)
FailedJob(job, e) == SetKey(SetKey(job, "status", "failed"), "error", e)

\* the except block: the job is failed, monitoring is released
MarkFailed(S, j, e, stopOk) ==
    ReleaseMonitoring(
        [S EXCEPT !.jobs[j] = FailedJob(@, e), !.raised = FALSE],
        j, stopOk)

\* project_id of a create_project payload
ProjectKey(payload) ==
    IF "projectId" \in DOMAIN payload.data
    THEN payload.data.projectId
    ELSE LastSegment(IF "repoUrl" \in DOMAIN payload.data
                     THEN payload.data.repoUrl ELSE << >>)

\* an entitlement written for every action
TrackProjectPayment_AnyAction(paid, action, payload) ==
    paid \cup {ProjectKey(payload)}

\* project_payments[project_id] = True, for create_project only
TrackProjectPayment(paid, action, payload) ==
    IF action = "create_project" THEN paid \cup {ProjectKey(payload)}
    ELSE paid

\* status, payment_status and result of a completed job
CompletedJob(job, result) ==
    SetKey(SetKey(SetKey(job, "status", "completed"),
                  "payment_status", "completed"),
           "result", result)

\* the job is completed and the entitlement written
MarkCompleted(S, j, action, payload, result) ==
    [S EXCEPT !.jobs[j] = CompletedJob(@, result),
              !.everCompleted = @ \cup {j},
              !.project_payments = TrackProjectPayment(@, action, payload)]

\* the code after complete_payment() has returned, with the except block
\* when stop_status_monitoring() raises
FinishJob(S, j, action, payload, result, stopOk, stopOk2) ==
    LET released == ReleaseMonitoring(
                        MarkCompleted(S, j, action, payload, result),
                        j, stopOk)
    IN  IF released.raised
        THEN MarkFailed(released, j, StopError, stopOk2)
        ELSE released

\* the primed program state is the store S
Becomes(S) ==
    /\ jobs' = S.jobs
    /\ payment_instances' = S.payment_instances
    /\ project_payments' = S.project_payments
    /\ monitoring' = S.monitoring
    /\ stopCalls' = S.stopCalls
    /\ everCompleted' = S.everCompleted

\* the monitor can invoke payment_callback once start_status_monitoring has
\* registered it; by its contract it does so once, while it is monitoring
CallbackRegistered(j) ==
    /\ j \in DOMAIN jobs
    /\ monitoring[j] # "none"
    /\ \/ adapter.duplicates
       \/ monitoring[j] = "active" /\ dispatchCount[j] = 0

\* payment_callback(payment_id): status running, then the await of
\* call_express_api with the action and payload the closure captured
SettlementCallback ==
    \E j \in JobIds :
        /\ CallbackRegistered(j)
        /\ nCallbacks < MaxCallbacks
        /\ InFlight < MaxInFlight
        /\ nCallbacks' = nCallbacks + 1
        /\ jobs' = [jobs EXCEPT ![j] = SetKey(@, "status", "running")]
        /\ Dispatch(j, jobs[j].action, jobs[j].payload)
        /\ callbacks' = [callbacks EXCEPT ![nCallbacks + 1] =
              [pc |-> "call_express_api", job |-> j,
               payment_id |-> jobs[j].payment_id,
               action |-> jobs[j].action, payload |-> jobs[j].payload,
               result |-> None]]
        /\ UNCHANGED <<payment_instances, project_payments, nextJob,
                       creating, monitoring, stopCalls, polls, freeOps,
                       everCompleted, adapter>>

\* call_express_api returns a result: payment_instances[job_id] is looked up
\* (KeyError when the association is gone) and complete_payment is awaited;
\* or it raises one of its HTTPExceptions
DispatchReturns ==
    \E i \in Slots :
        LET cb == callbacks[i] IN
        /\ cb.pc = "call_express_api"
        /\ \/ \E r \in Results(cb.action) :
                 /\ cb.job \in payment_instances
                 /\ callbacks' = [callbacks EXCEPT
                        ![i] = [cb EXCEPT !.pc = "complete_payment",
                                          !.result = r]]
                 /\ UNCHANGED <<jobs, payment_instances, project_payments,
                                monitoring, stopCalls, everCompleted>>
           \/ \E stopOk \in StopOutcomes :
                 /\ cb.job \notin payment_instances
                 /\ Becomes(MarkFailed(Store, cb.job, KeyError, stopOk))
                 /\ callbacks' = [callbacks EXCEPT ![i] = Idle]
           \/ \E e \in ExpressErrors, stopOk \in StopOutcomes :
                 /\ Becomes(MarkFailed(Store, cb.job, e, stopOk))
                 /\ callbacks' = [callbacks EXCEPT ![i] = Idle]
        /\ UNCHANGED <<nextJob, creating, nCallbacks, polls, freeOps,
                       dispatched, dispatchCount, adapter>>

\* complete_payment returns (the job is completed, the entitlement written,
\* monitoring released) or raises (the except block)
CompletePaymentReturns ==
    \E i \in Slots :
        LET cb == callbacks[i] IN
        /\ cb.pc = "complete_payment"
        /\ \/ \E stopOk \in StopOutcomes, stopOk2 \in StopOutcomes :
                 Becomes(FinishJob(Store, cb.job, cb.action, cb.payload,
                                   cb.result, stopOk, stopOk2))
           \/ \E stopOk \in StopOutcomes :
                 Becomes(MarkFailed(Store, cb.job, PaymentNetworkError,
                                    stopOk))
        /\ callbacks' = [callbacks EXCEPT ![i] = Idle]
        /\ UNCHANGED <<nextJob, creating, nCallbacks, polls, freeOps,
                       dispatched, dispatchCount, adapter>>

-----------------------------------------------------------------------------
(* get_status *)

\* the dictionary get_status returns
JobView(j, job) ==
    [code |-> 200, job_id |-> j,
     status |-> job.status, payment_status |-> job.payment_status,
     action |-> job.action, result |-> job.result]

\* what get_status(j) answers when it does not poll
StatusReply(js, j) ==
    IF j \notin DOMAIN js THEN [code |-> 404, detail |-> "Job not found"]
    ELSE JobView(j, js[j])

\* get_status up to its first await: it answers at once for an unknown job
\* and for a job without payment instance, else it awaits
\* check_payment_status()
GetStatus ==
    \E j \in JobIds \cup {UnknownJob} :
        /\ \/ /\ j \notin DOMAIN jobs \/ j \notin payment_instances
              /\ UNCHANGED polls
           \/ /\ j \in DOMAIN jobs
              /\ j \in payment_instances
              /\ InFlight < MaxInFlight
              /\ polls' = [polls EXCEPT ![j] = @ + 1]
        /\ UNCHANGED <<jobs, payment_instances, project_payments, nextJob,
                       creating, monitoring, stopCalls, callbacks,
                       nCallbacks, freeOps, dispatched, dispatchCount,
                       everCompleted, adapter>>

\* a poll whose failure fails the job
PolledJob_FailsJob(job, outcome) ==
    IF outcome = "raise" THEN FailedJob(job, PaymentNetworkError)
    ELSE SetKey(job, "payment_status", outcome)

\* a poll that writes the job's status from the payment status
PolledJob_WritesStatus(job, outcome) ==
    SetKey(SetKey(job, "payment_status",
                  IF outcome = "raise" THEN "error" ELSE outcome),
           "status", "awaiting_payment")

\* job["payment_status"] after the poll: the polled status, or "error" when
\* check_payment_status() raised
PolledJob(job, outcome) ==
    SetKey(job, "payment_status",
           IF outcome = "raise" THEN "error" ELSE outcome)

\* what get_status(j) answers after the poll
PollReply(js, j, outcome) == JobView(j, PolledJob(js[j], outcome))

PollOutcomes == PollStatuses \cup {"raise"}

\* check_payment_status() returns or raises; the view is returned
PollReturns ==
    \E j \in JobIds, outcome \in PollOutcomes :
        /\ polls[j] > 0
        /\ polls' = [polls EXCEPT ![j] = @ - 1]
        /\ jobs' = [jobs EXCEPT ![j] = PolledJob(@, outcome)]
        /\ UNCHANGED <<payment_instances, project_payments, nextJob,
                       creating, monitoring, stopCalls, callbacks,
                       nCallbacks, freeOps, dispatched, dispatchCount,
                       everCompleted, adapter>>

-----------------------------------------------------------------------------
(* setup_info, setup_socials, setup_karma, setup_ip *)

\* a gate that lets every project through
GateOpen_Always(paid, projectId) == TRUE

\* a gate that lets through exactly the projects without entitlement
GateOpen_Inverted(paid, projectId) == projectId \notin paid

\* if data.projectId not in project_payments: raise HTTPException(402)
GateOpen(paid, projectId) == projectId \in paid

\* a free operation up to its await: refused with 402, or the await of
\* call_express_api("/api/projects/{projectId}/<op>", "POST", ...)
FreeOperation(op) ==
    \E p \in ProjectKeys :
        /\ \/ /\ ~GateOpen(project_payments, p)
              /\ UNCHANGED freeOps
           \/ /\ GateOpen(project_payments, p)
              /\ InFlight < MaxInFlight
              /\ freeOps' = [freeOps EXCEPT ![p] = @ + 1]
        /\ UNCHANGED <<jobs, payment_instances, project_payments, nextJob,
                       creating, monitoring, stopCalls, callbacks,
                       nCallbacks, polls, dispatched, dispatchCount,
                       everCompleted, adapter>>

SetupInfo == FreeOperation("setup-info")

SetupSocials == FreeOperation("setup-socials")

SetupKarma == FreeOperation("setup-karma")

SetupIp == FreeOperation("setup-ip")

\* call_express_api returns the result or raises an HTTPException, which the
\* endpoint re-raises
SetupReturns ==
    \E p \in ProjectKeys :
        /\ freeOps[p] > 0
        /\ freeOps' = [freeOps EXCEPT ![p] = @ - 1]
        /\ UNCHANGED <<jobs, payment_instances, project_payments, nextJob,
                       creating, monitoring, stopCalls, callbacks,
                       nCallbacks, polls, dispatched, dispatchCount,
                       everCompleted, adapter>>

-----------------------------------------------------------------------------
(* Specifications *)

Next ==
    \/ CreateProject
    \/ Interact
    \/ Analyze
    \/ PaymentRequestReturns
    \/ StartMonitoringReturns
    \/ SettlementCallback
    \/ DispatchReturns
    \/ CompletePaymentReturns
    \/ GetStatus
    \/ PollReturns
    \/ SetupInfo
    \/ SetupSocials
    \/ SetupKarma
    \/ SetupIp
    \/ SetupReturns

Spec == Init /\ [][Next]_vars

SpecContract == InitContract /\ [][Next]_vars

SpecCollide == InitCollide /\ [][Next]_vars

\* every network call eventually returns or raises
Fairness ==
    /\ WF_vars(DispatchReturns)
    /\ WF_vars(CompletePaymentReturns)

FairSpec == InitFaulty /\ [][Next]_vars /\ Fairness

-----------------------------------------------------------------------------
(* Properties *)

Terminal(job) == job.status \in {"completed", "failed"}

\* C1: the Express server is called for a job only by its settlement
\* callback, with the job's own action and payload: a job that is still
\* awaiting payment has no dispatch, whatever creations and status queries
\* have run, and every dispatch is one invocation of a settlement callback.
C1_PaymentGating ==
    /\ \A j \in JobIds :
          /\ j \notin DOMAIN jobs =>
                dispatchCount[j] = 0 /\ dispatched[j] = {}
          /\ j \in DOMAIN jobs =>
                /\ jobs[j].status = "awaiting_payment" =>
                      dispatchCount[j] = 0 /\ dispatched[j] = {}
                /\ dispatched[j] \subseteq
                      {[action |-> jobs[j].action,
                        payload |-> jobs[j].payload]}
                /\ dispatchCount[j] > 0 => monitoring[j] # "none"
    /\ Sum(dispatchCount, JobIds) = nCallbacks

C1_Witness ==
    \E j \in DOMAIN jobs :
        /\ dispatchCount[j] > 0
        /\ dispatched[j] = {[action |-> jobs[j].action,
                             payload |-> jobs[j].payload]}

\* C2: a job's status moves only along awaiting_payment -> running ->
\* completed or running -> failed; a job starts in awaiting_payment.
AllowedTransition(from, to) ==
    \/ from = to
    \/ from = "awaiting_payment" /\ to = "running"
    \/ from = "running" /\ to \in {"completed", "failed"}

C2_StatusTransitions ==
    [][\A j \in DOMAIN jobs' :
          IF j \in DOMAIN jobs
          THEN AllowedTransition(jobs[j].status, jobs'[j].status)
          ELSE jobs'[j].status = "awaiting_payment"]_vars

\* C3: however often the settlement callback is invoked for a job, the
\* dispatcher runs once for it and a terminal status stays as the first
\* invocation left it.
C3_SingleDispatch ==
    [][\A j \in DOMAIN jobs :
          /\ dispatchCount'[j] <= 1
          /\ Terminal(jobs[j]) => jobs'[j].status = jobs[j].status]_vars

\* a settlement callback of job j is suspended at an await
CallbackInFlight(j) ==
    \E i \in Slots : callbacks[i].pc # "idle" /\ callbacks[i].job = j

\* slot i held a callback in this step and the callback has ended
CallbackEnds(i) == callbacks[i].pc # "idle" /\ callbacks'[i].pc = "idle"

\* C4: a job that is running reaches completed or failed once its network
\* calls return; a running job always has a callback in flight, a callback
\* that ends leaves its job completed or failed, and one that ends at the
\* dispatch call leaves it failed.
C4_SettlementResolves ==
    /\ \A j \in JobIds :
          (j \in DOMAIN jobs /\ jobs[j].status = "running")
             ~> (j \in DOMAIN jobs /\ Terminal(jobs[j]))
    /\ [](\A j \in DOMAIN jobs :
             jobs[j].status = "running" => CallbackInFlight(j))
    /\ [][\A i \in Slots :
             CallbackEnds(i) =>
                /\ Terminal(jobs'[callbacks[i].job])
                /\ callbacks[i].pc = "call_express_api" =>
                      jobs'[callbacks[i].job].status = "failed"]_vars

\* every step of the settlement path has failed for some job: the dispatch,
\* the completion report, the monitoring release
C4_Witness ==
    \E j \in DOMAIN jobs :
        /\ jobs[j].status = "failed"
        /\ jobs[j].error = StopError
        /\ ~CallbackInFlight(j)

\* the dispatch call of job j has failed
DispatchFailed(j) ==
    /\ j \in DOMAIN jobs
    /\ "error" \in DOMAIN jobs[j]
    /\ jobs[j].error \in ExpressErrors

\* C5: after a failed dispatch the job is failed with an error and no
\* result, its instrument association is gone and monitoring is stopped, and
\* no later step changes the job or dispatches for it again.
C5_DispatchFailureFinal ==
    /\ [](\A j \in JobIds :
             DispatchFailed(j) =>
                /\ jobs[j].status = "failed"
                /\ jobs[j].error # ""
                /\ jobs[j].result = None
                /\ j \notin payment_instances
                /\ monitoring[j] = "stopped")
    /\ [][\A j \in JobIds :
             DispatchFailed(j) =>
                /\ jobs'[j] = jobs[j]
                /\ dispatchCount'[j] = dispatchCount[j]]_vars

\* a create_project job for project p has completed
CreatedAndPaid(p) ==
    \E j \in everCompleted :
        /\ jobs[j].action = "create_project"
        /\ ProjectKey(jobs[j].payload) = p

\* C6: the gate of the free operations is open for a project exactly when
\* a create_project job for it has completed, and a free operation is only
\* ever waiting for the Express server on such a project.
C6_FreeOperationGate ==
    \A p \in ProjectKeys :
        /\ GateOpen(project_payments, p) <=> CreatedAndPaid(p)
        /\ freeOps[p] > 0 => CreatedAndPaid(p)

\* a free operation is through the gate for a paid project while the gate is
\* closed for another
C6_Witness ==
    \E p, q \in ProjectKeys :
        /\ freeOps[p] > 0
        /\ ~GateOpen(project_payments, q)

\* C7: get_status answers 404 for an unknown job and the job's current
\* status for a known one, with or without a poll, and no step of a status
\* query changes the status of any job.
C7_StatusQueryReadsStatus ==
    /\ [](\A j \in JobIds \cup {UnknownJob} :
             IF j \notin DOMAIN jobs
             THEN StatusReply(jobs, j).code = 404
             ELSE /\ StatusReply(jobs, j).code = 200
                  /\ StatusReply(jobs, j).status = jobs[j].status
                  /\ \A o \in PollOutcomes :
                        /\ PollReply(jobs, j, o).code = 200
                        /\ PollReply(jobs, j, o).status = jobs[j].status)
    /\ [][polls' # polls =>
             /\ DOMAIN jobs' = DOMAIN jobs
             /\ \A j \in DOMAIN jobs : jobs'[j].status = jobs[j].status]_vars

\* a poll is still in flight for a job that has become terminal
C7_Witness ==
    \E j \in DOMAIN jobs : polls[j] > 0 /\ Terminal(jobs[j])

\* C8: a completed or failed job is never changed again.
C8_TerminalImmutable ==
    [][\A j \in DOMAIN jobs : Terminal(jobs[j]) => jobs'[j] = jobs[j]]_vars

C10_PollFailureDegrades ==
    /\ [](\A j \in DOMAIN jobs :
             ~Terminal(jobs[j]) =>
                LET polled == PolledJob(jobs[j], "raise")
                    reply == PollReply(jobs, j, "raise")
                IN  /\ polled.payment_status = "error"
                    /\ polled = SetKey(jobs[j], "payment_status", "error")
                    /\ reply = [code |-> 200, job_id |-> j,
                                status |-> jobs[j].status,
                                payment_status |-> "error",
                                action |-> jobs[j].action,
                                result |-> jobs[j].result])
    /\ [][\A j \in DOMAIN jobs :
             polls'[j] < polls[j] =>
                /\ jobs'[j].status = jobs[j].status
                /\ jobs'[j].result = jobs[j].result
                /\ DOMAIN jobs'[j] = DOMAIN jobs[j]
                /\ jobs'[j].payment_status \in PollStatuses \cup {"error"}
                /\ payment_instances' = payment_instances
                /\ monitoring' = monitoring]_vars

\* a poll of a job that awaits payment has failed
C10_Witness ==
    \E j \in DOMAIN jobs :
        /\ jobs[j].payment_status = "error"
        /\ jobs[j].status = "awaiting_payment"
        /\ j \in payment_instances

\* a creation of job j is suspended at the await named pc
Creating(j, pc) == \E c \in creating : c.job = j /\ c.pc = pc

\* C11: when create_payment_request fails the endpoint answers an error and
\* jobs, payment_instances and project_payments are as before the call: the
\* generated job id has no record, no association and no monitoring, while
\* the request is pending and after it has failed.
C11_CreationFailureLeavesNoJob ==
    /\ [](\A j \in JobIds :
             j \notin DOMAIN jobs =>
                /\ j \notin payment_instances
                /\ monitoring[j] = "none"
                /\ ~Creating(j, "start_status_monitoring"))
    /\ [](CreateFailedReply(PaymentNetworkError).code = 500)
    /\ [][\A c \in creating :
             (c.pc = "create_payment_request" /\ ~Creating(c.job, c.pc)'
                 /\ ~Creating(c.job, "start_status_monitoring")') =>
                /\ jobs' = jobs
                /\ payment_instances' = payment_instances
                /\ project_payments' = project_payments
                /\ monitoring' = monitoring]_vars

\* a job id was generated, its creation has failed and nothing is stored
C11_Witness ==
    /\ nextJob > 0
    /\ creating = {}
    /\ \E j \in 1..nextJob : j \notin DOMAIN jobs

HasError(job) == "error" \in DOMAIN job

\* C13: a job has a result only while it is completed and an error only
\* while it is failed, and never both.
C13_ResultAndErrorMatchStatus ==
    \A j \in DOMAIN jobs :
        /\ jobs[j].result # None => jobs[j].status = "completed"
        /\ HasError(jobs[j]) => jobs[j].status = "failed"
        /\ ~(jobs[j].result # None /\ HasError(jobs[j]))

\* C14: a creation under a job id that is already stored never replaces the
\* stored record: action, payload and payment id of a stored job never
\* change and its status never returns to awaiting_payment.
C14_NoJobOverwritten ==
    [][\A j \in DOMAIN jobs :
          /\ j \in DOMAIN jobs'
          /\ jobs'[j].action = jobs[j].action
          /\ jobs'[j].payload = jobs[j].payload
          /\ jobs'[j].payment_id = jobs[j].payment_id
          /\ jobs'[j].status = "awaiting_payment" =>
                jobs[j].status = "awaiting_payment"]_vars

\* C15: a step of a free operation, whether it starts the Express call or
\* receives its answer, changes neither jobs nor payment_instances nor any
\* pending creation or dispatch, and an Express call of a free operation is
\* only ever started, or pending, for a project with an entitlement: a
\* refused operation calls nothing.
C15_FreeOperationFrame ==
    /\ [](\A p \in ProjectKeys : freeOps[p] > 0 => p \in project_payments)
    /\ [][freeOps' # freeOps =>
             /\ jobs' = jobs
             /\ payment_instances' = payment_instances
             /\ project_payments' = project_payments
             /\ creating' = creating
             /\ monitoring' = monitoring
             /\ dispatched' = dispatched
             /\ dispatchCount' = dispatchCount
             /\ \A p \in ProjectKeys :
                   freeOps'[p] > freeOps[p] => p \in project_payments]_vars

\* a free operation is calling Express while the job that paid for the
\* project is stored and released
C15_Witness ==
    /\ \E p \in ProjectKeys : freeOps[p] > 0
    /\ \E j \in DOMAIN jobs : j \notin payment_instances

PaidActions == {"create_project", "interact", "analyze"}

\* C16: the amount a creation requests is the amount of its action, whatever
\* the request carries; create_project costs more than interact, interact
\* more than nothing; and a free operation requests no payment instrument:
\* its steps start no creation and add no association.
C16_FixedFees ==
    /\ [](\A c \in creating :
             /\ c.action \in PaidActions
             /\ c.amount = Amount(c.action))
    /\ [](\A c, d \in creating : c.action = d.action => c.amount = d.amount)
    /\ [](Amount("create_project") > Amount("interact"))
    /\ [](Amount("interact") > 0)
    /\ [][freeOps' # freeOps =>
             creating' = creating
             /\ payment_instances' = payment_instances]_vars

\* an interact job is being created for less than a create_project job costs
C16_Witness ==
    \E c \in creating :
        /\ c.action = "interact"
        /\ c.amount < Amount("create_project")
        /\ c.pc = "create_payment_request"

\* the callback in slot i calls complete_payment in this step
CallsCompletePayment(i) ==
    callbacks[i].pc # "complete_payment"
    /\ callbacks'[i].pc = "complete_payment"

\* complete_payment of the callback in slot i raises in this step
CompletePaymentFails(i) ==
    /\ callbacks[i].pc = "complete_payment"
    /\ callbacks'[i].pc = "idle"
    /\ jobs'[callbacks[i].job].status # "completed"

\* C17: the settlement path runs dispatch, complete_payment, completed in
\* this order: a job becomes completed only in the step in which a
\* complete_payment called with the dispatch result returns, complete_payment
\* is called only after a dispatch that returned a result and never for a job
\* whose dispatch failed, and when complete_payment raises the job is failed
\* with no result and no entitlement of its project.
C17_SettlementOrder ==
    /\ [][\A j \in DOMAIN jobs :
             (jobs[j].status # "completed" /\ jobs'[j].status = "completed") =>
                \E i \in Slots :
                   /\ callbacks[i].pc = "complete_payment"
                   /\ callbacks[i].job = j
                   /\ callbacks'[i].pc = "idle"
                   /\ callbacks[i].result \in Results(jobs[j].action)
                   /\ jobs'[j].result = callbacks[i].result]_vars
    /\ [][\A i \in Slots :
             CallsCompletePayment(i) =>
                /\ callbacks[i].pc = "call_express_api"
                /\ callbacks'[i].result \in Results(callbacks[i].action)
                /\ ~DispatchFailed(callbacks[i].job)
                /\ jobs' = jobs]_vars
    /\ [][\A i \in Slots :
             CompletePaymentFails(i) =>
                LET j == callbacks[i].job IN
                /\ jobs'[j].status = "failed"
                /\ HasError(jobs'[j])
                /\ jobs'[j].result = None
                /\ jobs[j].action = "create_project" =>
                      ProjectKey(jobs[j].payload) \notin project_payments']_vars

\* start_status_monitoring has raised for the stored job j: its creation has
\* ended and its monitor was never started
MonitoringFailed(j) ==
    /\ j \in DOMAIN jobs
    /\ monitoring[j] = "none"
    /\ \A c \in creating : c.job # j

\* C18: a job whose monitoring registration failed is failed and has no
\* instrument association.
C18_MonitoringFailureFailsJob ==
    \A j \in JobIds :
        MonitoringFailed(j) =>
            /\ jobs[j].status = "failed"
            /\ j \notin payment_instances

\* C19: when a create_project job is completed, the gate of the free
\* operations is open for the project id in the dispatcher's result.
C19_EntitlementKeyFromResult ==
    \A j \in DOMAIN jobs :
        (jobs[j].action = "create_project" /\ jobs[j].status = "completed") =>
            GateOpen(project_payments, jobs[j].result.projectId)

\* C20: a completed job has payment_status "completed".
C20_CompletedPaymentStatus ==
    \A j \in DOMAIN jobs :
        jobs[j].status = "completed" =>
            jobs[j].payment_status = "completed"

\* C21: every stored job that is awaiting payment or running has an
\* associated payment instrument, so get_status polls for it.
C21_NonTerminalHasInstrument ==
    \A j \in DOMAIN jobs :
        jobs[j].status \in {"awaiting_payment", "running"} =>
            j \in payment_instances

====
